---- MODULE Spec2Model ----
(***************************************************************************)
(* cooklang-to-human: rendering of a parsed and scaled recipe to a sink.   *)
(*                                                                         *)
(* A Rust String is a sequence of atoms (TLA+ strings): a literal piece, a *)
(* name, a digit, a style opening or the style reset.  Indices into the    *)
(* recipe's arrays are 0-based as in the source; Seq positions are index+1.*)
(***************************************************************************)
EXTENDS Integers, Sequences, FiniteSets, TLC

VARIABLES
    recipe,      \* the ScaledRecipe handed to print_human (read-only)
    name,        \* the display name handed to print_human
    term_width,  \* TERM_WIDTH, computed once per process
    sink,        \* the writer: how many more writes it accepts
    out,         \* the writes the sink accepted, in order
    rejected,    \* the writes the sink rejected, in order
    pc,          \* the statement of print_human that runs next
    result       \* what print_human returned: running, Ok, Err or panic

vars == <<recipe, name, term_width, sink, out, rejected, pc, result>>

----------------------------------------------------------------------------
(* Option, strings *)

None == [some |-> FALSE, v |-> <<>>]
Some(x) == [some |-> TRUE, v |-> x]

RECURSIVE Concat(_)
Concat(ss) == IF ss = <<>> THEN <<>> ELSE Head(ss) \o Concat(Tail(ss))

Contains(s, x) == \E p \in 1..Len(s) : s[p] = x

\* 0-based position of the first element equal to x, as Iterator::position
position(s, x) ==
    IF Contains(s, x)
    THEN Some((CHOOSE p \in 1..Len(s) : s[p] = x /\ \A q \in 1..(p - 1) : s[q] /= x) - 1)
    ELSE None

Digit == <<"0", "1", "2", "3", "4", "5", "6", "7", "8", "9">>

RECURSIVE to_string(_)
to_string(n) ==
    IF n < 10 THEN <<Digit[n + 1]>>
    ELSE to_string(n \div 10) \o <<Digit[(n % 10) + 1]>>

\* yansi: the painted text is the style's opening, the text, the reset
paint(s, style) == <<style>> \o s \o <<"@reset">>

subscript_char(c) ==
    CASE c = "0" -> "_0" [] c = "1" -> "_1" [] c = "2" -> "_2" [] c = "3" -> "_3"
      [] c = "4" -> "_4" [] c = "5" -> "_5" [] c = "6" -> "_6" [] c = "7" -> "_7"
      [] c = "8" -> "_8" [] c = "9" -> "_9" [] OTHER -> c

\* the characters write_subscript pushes on the buffer
write_subscript(s) == [p \in 1..Len(s) |-> subscript_char(s[p])]

quantity_fmt(qty) ==
    IF qty.unit.some
    THEN <<qty.value, " ">> \o paint(<<qty.unit.v>>, "@italic")
    ELSE <<qty.value>>

RECURSIVE trim_start(_)
trim_start(s) == IF s /= <<>> /\ Head(s) = " " THEN trim_start(Tail(s)) ELSE s

RECURSIVE trim_end(_)
trim_end(s) ==
    IF s /= <<>> /\ s[Len(s)] = " " THEN trim_end(SubSeq(s, 1, Len(s) - 1)) ELSE s

trim(s) == trim_end(trim_start(s))

----------------------------------------------------------------------------
(* Ingredients of the model of cooklang::model *)

display_name(igr) == IF igr.alias.some THEN igr.alias.v ELSE igr.name

is_optional(modifiers) == "OPT" \in modifiers

should_be_listed(modifiers) == "HIDDEN" \notin modifiers /\ "REF" \notin modifiers

\* IngredientRelation::references_to: the target index and kind, if any
references_to(relation) ==
    IF relation.target = "None" THEN None
    ELSE Some([index |-> relation.index, target |-> relation.target])

is_intermediate_reference(relation) ==
    references_to(relation).some /\ relation.target \in {"Step", "Section"}

----------------------------------------------------------------------------
(* Per-step deduplication *)

is_ingredient(item) == item.kind = "Ingredient"

\* the ingredient indices the step's items name, in item order
step_igr_indices(step) ==
    LET refs == SelectSeq(step.items, is_ingredient)
    IN  [p \in 1..Len(refs) |-> refs[p].index]

step_igr_names(step, rcp) ==
    {rcp.ingredients[i + 1].name : i \in {step_igr_indices(step)[p] : p \in 1..Len(step_igr_indices(step))}}

\* the first loop of build_step_igrs_dedup: name -> the indices used, in order
group_step_igrs(step, rcp) ==
    [n \in step_igr_names(step, rcp) |->
        LET same(i) == rcp.ingredients[i + 1].name = n
        IN  SelectSeq(step_igr_indices(step), same)]

provides_information(rcp, i) ==
    LET igr == rcp.ingredients[i + 1]
    IN  igr.quantity.some \/ is_intermediate_reference(igr.relation)


\* build_step_igrs_dedup without the retain: every occurrence stays
retain_group_keep_all(rcp, group) == group

\* build_step_igrs_dedup without "if group.is_empty() { group.push(first) }"
retain_group_no_fallback(rcp, group) ==
    LET keep(i) == provides_information(rcp, i)
    IN  SelectSeq(group, keep)

\* group.retain(..), then the first entry again if nothing was kept
retain_group(rcp, group) ==
    LET first == Head(group)
        keep(i) == provides_information(rcp, i)
        kept == SelectSeq(group, keep)
    IN  IF kept = <<>> THEN <<first>> ELSE kept

build_step_igrs_dedup(step, rcp) ==
    LET groups == group_step_igrs(step, rcp)
    IN  [n \in DOMAIN groups |-> retain_group(rcp, groups[n])]


\* write_igr_count without "pos += 1"
write_igr_count_zero_based(step_igrs, index, igr_name) ==
    LET entries == step_igrs[igr_name]
        found == position(entries, index)
    IN  IF Len(entries) <= 1 THEN [text |-> <<>>, pos |-> None]
        ELSE IF found.some
             THEN [text |-> write_subscript(to_string(found.v)), pos |-> Some(found.v)]
             ELSE [text |-> <<>>, pos |-> None]

\* what write_igr_count pushes on the buffer, and the position it returns
write_igr_count(step_igrs, index, igr_name) ==
    LET entries == step_igrs[igr_name]
        found == position(entries, index)
    IN  IF Len(entries) <= 1 THEN [text |-> <<>>, pos |-> None]
        ELSE IF found.some
             THEN [text |-> write_subscript(to_string(found.v + 1)),
                   pos |-> Some(found.v + 1)]
             ELSE [text |-> <<>>, pos |-> None]

----------------------------------------------------------------------------
(* step_text: the narrative of a step and its ingredient line *)


\* the timer match with (None, None) => {} in place of unreachable!()
timer_text_tolerant(timer) ==
    CASE timer.quantity.some /\ timer.name.some ->
            [panic |-> FALSE,
             text |-> paint(quantity_fmt(timer.quantity.v), "@timer") \o <<" (">>
                      \o paint(<<timer.name.v>>, "@timer") \o <<")">>]
      [] timer.quantity.some /\ ~timer.name.some ->
            [panic |-> FALSE, text |-> paint(quantity_fmt(timer.quantity.v), "@timer")]
      [] ~timer.quantity.some /\ timer.name.some ->
            [panic |-> FALSE, text |-> paint(<<timer.name.v>>, "@timer")]
      [] OTHER -> [panic |-> FALSE, text |-> <<>>]

\* Item::Timer: the (quantity, name) match; (None, None) is unreachable!()
timer_text(timer) ==
    CASE timer.quantity.some /\ timer.name.some ->
            [panic |-> FALSE,
             text |-> paint(quantity_fmt(timer.quantity.v), "@timer") \o <<" (">>
                      \o paint(<<timer.name.v>>, "@timer") \o <<")">>]
      [] timer.quantity.some /\ ~timer.name.some ->
            [panic |-> FALSE, text |-> paint(quantity_fmt(timer.quantity.v), "@timer")]
      [] ~timer.quantity.some /\ timer.name.some ->
            [panic |-> FALSE, text |-> paint(<<timer.name.v>>, "@timer")]
      [] OTHER -> [panic |-> TRUE, text |-> <<>>]

\* what one iteration of the loop over step.items appends to step_text
item_text(rcp, step_igrs_dedup, item) ==
    CASE item.kind = "Text" -> [panic |-> FALSE, text |-> item.value]
      [] item.kind = "Ingredient" ->
            LET igr == rcp.ingredients[item.index + 1]
            IN  [panic |-> FALSE,
                 text |-> paint(<<display_name(igr)>>, "@ingredient")
                          \o write_igr_count(step_igrs_dedup, item.index, igr.name).text]
      [] item.kind = "Cookware" ->
            [panic |-> FALSE,
             text |-> paint(<<rcp.cookware[item.index + 1].name>>, "@cookware")]
      [] item.kind = "Timer" -> timer_text(rcp.timers[item.index + 1])
      [] item.kind = "InlineQuantity" ->
            [panic |-> FALSE,
             text |-> paint(quantity_fmt(rcp.inline_quantities[item.index + 1]),
                            "@inline_quantity")]

\* the pieces of the narrative, one per item
step_pieces(rcp, step) ==
    LET dedup == build_step_igrs_dedup(step, rcp)
    IN  [j \in 1..Len(step.items) |-> item_text(rcp, dedup, step.items[j])]


\* step_text queueing only the occurrences that provide information
in_igrs_line_informative(rcp, step_igrs_dedup, item) ==
    /\ item.kind = "Ingredient"
    /\ Contains(step_igrs_dedup[rcp.ingredients[item.index + 1].name], item.index)
    /\ provides_information(rcp, item.index)

\* is the item pushed on step_igrs_line
in_igrs_line(rcp, step_igrs_dedup, item) ==
    /\ item.kind = "Ingredient"
    /\ Contains(step_igrs_dedup[rcp.ingredients[item.index + 1].name], item.index)

\* step_igrs_line after the loop: the ingredient (by index) and its position
step_igrs_line(rcp, step) ==
    LET dedup == build_step_igrs_dedup(step, rcp)
        queued(item) == in_igrs_line(rcp, dedup, item)
        items == SelectSeq(step.items, queued)
    IN  [p \in 1..Len(items) |->
            [index |-> items[p].index,
             pos |-> write_igr_count(dedup, items[p].index,
                                     rcp.ingredients[items[p].index + 1].name).pos]]


\* inter_ref_text with "step {target_step + 1}" in place of the step's number
inter_ref_text_by_position(igr, section) ==
    LET ref == references_to(igr.relation)
    IN  CASE ref.some /\ ref.v.target = "Section" ->
                [panic |-> FALSE, text |-> Some(<<"section ">> \o to_string(ref.v.index + 1))]
          [] ref.some /\ ref.v.target = "Step" ->
                IF ref.v.index + 1 > Len(section.content)
                   \/ section.content[ref.v.index + 1].kind /= "Step"
                THEN [panic |-> TRUE, text |-> None]
                ELSE [panic |-> FALSE,
                      text |-> Some(<<"step ">> \o to_string(ref.v.index + 1))]
          [] OTHER -> [panic |-> FALSE, text |-> None]

\* the text after " from ": the section's 1-based index, or the number of the
\* step at the target position of this section's content (indexing panics on a
\* position past the end, unwrap_step on a text)
inter_ref_text(igr, section) ==
    LET ref == references_to(igr.relation)
    IN  CASE ref.some /\ ref.v.target = "Section" ->
                [panic |-> FALSE, text |-> Some(<<"section ">> \o to_string(ref.v.index + 1))]
          [] ref.some /\ ref.v.target = "Step" ->
                IF ref.v.index + 1 > Len(section.content)
                   \/ section.content[ref.v.index + 1].kind /= "Step"
                THEN [panic |-> TRUE, text |-> None]
                ELSE [panic |-> FALSE,
                      text |-> Some(<<"step ">>
                                    \o to_string(section.content[ref.v.index + 1].step.number))]
          [] OTHER -> [panic |-> FALSE, text |-> None]

\* one entry of the ingredient line, without the separator
igr_entry(rcp, section, entry) ==
    LET igr == rcp.ingredients[entry.index + 1]
        source == inter_ref_text(igr, section).text
    IN  <<display_name(igr)>>
        \o (IF entry.pos.some THEN write_subscript(to_string(entry.pos.v)) ELSE <<>>)
        \o (IF is_optional(igr.modifiers) THEN paint(<<" (opt)">>, "@opt_marker") ELSE <<>>)
        \o (IF source.some
            THEN paint(<<" from ">> \o source.v, "@intermediate_ref") ELSE <<>>)
        \o (IF igr.quantity.some
            THEN <<": ">> \o paint(quantity_fmt(igr.quantity.v), "@step_igr_quantity")
            ELSE <<>>)


\* step_text without "if i != step_igrs_line.len() - 1"
igrs_text_trailing_separator(rcp, section, line) ==
    IF line = <<>> THEN <<"[-]">>
    ELSE <<"[">>
         \o Concat([i \in 1..Len(line) |-> igr_entry(rcp, section, line[i]) \o <<", ">>])
         \o <<"]">>

\* igrs_text: "[" entries separated by ", " "]", or "[-]" for an empty line
igrs_text(rcp, section, line) ==
    IF line = <<>> THEN <<"[-]">>
    ELSE <<"[">>
         \o Concat([i \in 1..Len(line) |->
                igr_entry(rcp, section, line[i])
                \o (IF i /= Len(line) THEN <<", ">> ELSE <<>>)])
         \o <<"]">>

step_text(rcp, section, step) ==
    LET pieces == step_pieces(rcp, step)
        line == step_igrs_line(rcp, step)
        panics ==
            \/ \E j \in 1..Len(pieces) : pieces[j].panic
            \/ \E i \in 1..Len(line) :
                    inter_ref_text(rcp.ingredients[line[i].index + 1], section).panic
    IN  IF panics THEN [panic |-> TRUE, text |-> <<>>, igrs |-> <<>>]
        ELSE [panic |-> FALSE,
              text |-> Concat([j \in 1..Len(pieces) |-> pieces[j].text]),
              igrs |-> igrs_text(rcp, section, line)]

----------------------------------------------------------------------------
(* Wrapping and the writes of each part of the document *)

Min(a, b) == IF a < b THEN a ELSE b

Max(a, b) == IF a > b THEN a ELSE b

\* the hard cap of TERM_WIDTH
TERM_WIDTH_CAP == 80

\* textwrap::termwidth().min(80)
TERM_WIDTH(termwidth) == Min(termwidth, TERM_WIDTH_CAP)

writeln(s) == s \o <<"\n">>

\* the default word separator: every atom is a word
RECURSIVE words_default(_)
words_default(text) ==
    IF text = <<>> THEN <<>> ELSE <<<<Head(text)>>>> \o words_default(Tail(text))

\* the custom word separator of the ingredient line: split_inclusive(", ")
RECURSIVE words_comma(_, _)
words_comma(text, word) ==
    IF text = <<>> THEN (IF word = <<>> THEN <<>> ELSE <<word>>)
    ELSE IF Head(text) = ", "
         THEN <<word \o <<", ">>>> \o words_comma(Tail(text), <<>>)
         ELSE words_comma(Tail(text), word \o <<Head(text)>>)

\* textwrap::wrap: fill each line with words up to its capacity; a word longer
\* than a line stands alone on it
RECURSIVE fill_lines(_, _, _, _)
fill_lines(words, line, cap, cap_rest) ==
    IF words = <<>> THEN (IF line = <<>> THEN <<>> ELSE <<line>>)
    ELSE IF line = <<>> \/ Len(line) + Len(Head(words)) <= cap
         THEN fill_lines(Tail(words), line \o Head(words), cap, cap_rest)
         ELSE <<line>> \o fill_lines(words, <<>>, cap_rest, cap_rest)

wrap(text, width, initial_indent, subsequent_indent, separator) ==
    LET words == IF separator = "comma" THEN words_comma(text, <<>>)
                 ELSE words_default(text)
        lines == fill_lines(words, <<>>, Max(1, width - Len(initial_indent)),
                            Max(1, width - Len(subsequent_indent)))
    IN  IF text = <<>> THEN <<<<>>>>
        ELSE [p \in 1..Len(lines) |->
                (IF p = 1 THEN initial_indent ELSE subsequent_indent) \o lines[p]]

\* one writeln per wrapped line
print_wrapped_with_options(text, width, initial_indent, subsequent_indent, separator) ==
    LET lines == wrap(text, width, initial_indent, subsequent_indent, separator)
    IN  [p \in 1..Len(lines) |-> writeln(lines[p])]

print_wrapped(text, width) == print_wrapped_with_options(text, width, <<>>, <<>>, "default")

char_code(c) ==
    CASE c = "a" -> 97 [] c = "b" -> 98 [] c = "c" -> 99 [] c = "d" -> 100
      [] c = "e" -> 101 [] c = "f" -> 102 [] c = "g" -> 103 [] OTHER -> 63

\* the sum of c * i over the characters; the sums of the model stay far below
\* 2^64, where usize::wrapping_add is addition
RECURSIVE wrapping_sum(_, _)
wrapping_sum(tag, i) ==
    IF i >= Len(tag) THEN 0
    ELSE char_code(tag[i + 1]) * i + wrapping_sum(tag, i + 1)

\* a tag is its sequence of characters
tag_color(tag) ==
    LET hash == IF tag = <<>> THEN 0 ELSE wrapping_sum(tag, 0) % 7
    IN  CASE hash = 0 -> "@red" [] hash = 1 -> "@blue" [] hash = 2 -> "@cyan"
          [] hash = 3 -> "@yellow" [] hash = 4 -> "@green" [] hash = 5 -> "@magenta"
          [] hash = 6 -> "@white"

header_writes(rcp, display, width) ==
    LET md == rcp.metadata
        title_text == <<" ">> \o (IF md.emoji.some THEN <<md.emoji.v, " ">> ELSE <<>>)
                      \o <<display, " ">>
        tags_str == Concat([t \in 1..Len(md.tags.v) |->
                        paint(<<"#">> \o md.tags.v[t], tag_color(md.tags.v[t])) \o <<" ">>])
    IN  <<writeln(paint(title_text, "@title"))>>
        \o (IF md.tags.some THEN print_wrapped(tags_str, width) ELSE <<>>)
        \o <<writeln(<<>>)>>

\* humantime::format_duration of t minutes: days, hours and minutes that are not 0
time_fmt(t) ==
    LET d == t \div 1440
        h == (t % 1440) \div 60
        m == t % 60
        parts == (IF d > 0 THEN <<to_string(d) \o <<"d">>>> ELSE <<>>)
                 \o (IF h > 0 THEN <<to_string(h) \o <<"h">>>> ELSE <<>>)
                 \o (IF m > 0 THEN <<to_string(m) \o <<"m">>>> ELSE <<>>)
    IN  IF t = 0 THEN <<"0s">>
        ELSE Concat([p \in 1..Len(parts) |->
                        (IF p > 1 THEN <<" ">> ELSE <<>>) \o parts[p]])

meta_fmt(key, value) == writeln(paint(<<key>>, "@meta_key") \o <<": ">> \o value)

\* author.name().or(author.url()).unwrap_or("-")
name_or_url(who) ==
    IF who.name.some THEN who.name.v ELSE IF who.url.some THEN who.url.v ELSE "-"

\* RecipeTime::total
time_total(time) ==
    IF time.kind = "Total" THEN time.total
    ELSE (IF time.prep_time.some THEN time.prep_time.v ELSE 0)
         + (IF time.cook_time.some THEN time.cook_time.v ELSE 0)

time_writes(time) ==
    IF time.kind = "Total" THEN <<meta_fmt("time", time_fmt(time.total))>>
    ELSE (IF time.prep_time.some
          THEN <<meta_fmt("prep time", time_fmt(time.prep_time.v))>> ELSE <<>>)
         \o (IF time.cook_time.some
             THEN <<meta_fmt("cook time", time_fmt(time.cook_time.v))>> ELSE <<>>)
         \o <<meta_fmt("total time", time_fmt(time_total(time)))>>

servings_text(rcp) ==
    LET servings == rcp.metadata.servings.v
        index == IF rcp.scaled_data.some /\ rcp.scaled_data.v.index.some
                 THEN rcp.scaled_data.v.index
                 ELSE IF rcp.is_default_scaled THEN Some(0) ELSE None
        text == Concat([i \in 1..Len(servings) |->
                    (IF i > 1 THEN <<"|">> ELSE <<>>)
                    \o (IF index.some /\ index.v = i - 1
                        THEN paint(<<"[">> \o to_string(servings[i]) \o <<"]">>,
                                   "@selected_servings")
                        ELSE to_string(servings[i]))])
    IN  IF rcp.scaled_data.some /\ ~rcp.scaled_data.v.index.some
        THEN paint(paint(text, "@strike"), "@dim") \o <<" ">> \o paint(<<"->">>, "@red")
             \o <<" ">> \o paint(to_string(rcp.scaled_data.v.target_servings), "@red")
        ELSE text

\* metadata.map.is_empty(): no key at all
map_is_empty(md) ==
    /\ ~md.emoji.some /\ ~md.tags.some /\ ~md.description.some /\ ~md.author.some
    /\ ~md.source.some /\ ~md.time.some /\ ~md.servings.some /\ md.other = <<>>

metadata_writes(rcp, width) ==
    LET md == rcp.metadata
        listed(kv) == kv.key.some /\ kv.value.some
        others == SelectSeq(md.other, listed)
    IN  (IF md.description.some
         THEN print_wrapped_with_options(md.description.v, width, <<"| ">>, <<"|">>,
                                         "default")
              \o <<writeln(<<>>)>>
         ELSE <<>>)
        \o (IF md.author.some THEN <<meta_fmt("author", <<name_or_url(md.author.v)>>)>>
            ELSE <<>>)
        \o (IF md.source.some THEN <<meta_fmt("source", <<name_or_url(md.source.v)>>)>>
            ELSE <<>>)
        \o (IF md.time.some THEN time_writes(md.time.v) ELSE <<>>)
        \o (IF md.servings.some THEN <<meta_fmt("servings", servings_text(rcp))>> ELSE <<>>)
        \o [p \in 1..Len(others) |-> meta_fmt(others[p].key.v, <<others[p].value.v>>)]
        \o (IF ~map_is_empty(md) THEN <<writeln(<<>>)>> ELSE <<>>)

----------------------------------------------------------------------------
(* The ingredient table *)

trinagle == " /!\\"

octagon == " (x)"

\* str::trim of a glyph: the glyph without its leading space
glyph_trim(glyph) == IF glyph = trinagle THEN "/!\\" ELSE IF glyph = octagon THEN "(x)" ELSE glyph

\* the rows of the table are the entries that should be listed
listed_entries(rcp) ==
    LET listed(entry) == should_be_listed(entry.ingredient.modifiers)
    IN  SelectSeq(rcp.grouped, listed)

outcome_style(entry) ==
    CASE entry.outcome.some /\ entry.outcome.v = "Fixed" -> "@yellow"
      [] entry.outcome.some /\ entry.outcome.v = "Error" -> "@red"
      [] OTHER -> "@plain"

outcome_char(entry) ==
    CASE entry.outcome.some /\ entry.outcome.v = "Fixed" -> trinagle
      [] entry.outcome.some /\ entry.outcome.v = "Error" -> octagon
      [] OTHER -> ""


\* there_is_fixed set before the should_be_listed check
there_is_fixed_any_entry(rcp) ==
    \E p \in 1..Len(rcp.grouped) :
        rcp.grouped[p].outcome.some /\ rcp.grouped[p].outcome.v = "Fixed"

there_is_fixed(rcp) ==
    \E p \in 1..Len(listed_entries(rcp)) :
        /\ listed_entries(rcp)[p].outcome.some
        /\ listed_entries(rcp)[p].outcome.v = "Fixed"

there_is_err(rcp) ==
    \E p \in 1..Len(listed_entries(rcp)) :
        /\ listed_entries(rcp)[p].outcome.some
        /\ listed_entries(rcp)[p].outcome.v = "Error"

\* the four cells of a row
igr_row(entry) ==
    LET igr == entry.ingredient
        content == Concat([q \in 1..Len(entry.quantity) |->
                        (IF q > 1 THEN <<", ">> ELSE <<>>)
                        \o paint(quantity_fmt(entry.quantity[q]), outcome_style(entry))])
    IN  <<<<display_name(igr)>>,
          IF is_optional(igr.modifiers) THEN paint(<<"(optional)">>, "@opt_marker")
          ELSE <<>>,
          content \o paint(<<outcome_char(entry)>>, outcome_style(entry)),
          IF igr.note.some THEN <<"(", igr.note.v, ")">> ELSE <<>>>>

\* tabular's Display of a row under "  {:<} {:<}    {:<} {:<}", padding left out
row_text(row) ==
    <<"  ">> \o row[1] \o <<" ">> \o row[2] \o <<"    ">> \o row[3] \o <<" ">> \o row[4]
    \o <<"\n">>

table_text(rows) == Concat([p \in 1..Len(rows) |-> row_text(rows[p])])

\* the writes between the table and the closing blank line
outcome_legend_writes(rcp) ==
    IF there_is_fixed(rcp) \/ there_is_err(rcp)
    THEN <<writeln(<<>>)>>
         \o (IF there_is_fixed(rcp)
             THEN <<paint(<<glyph_trim(trinagle)>>, "@yellow") \o <<" ">>
                    \o paint(<<"fixed value">>, "@yellow")>>
             ELSE <<>>)
         \o (IF there_is_err(rcp)
             THEN (IF there_is_fixed(rcp) THEN <<<<" | ">>>> ELSE <<>>)
                  \o <<paint(<<glyph_trim(octagon)>>, "@red") \o <<" ">>
                       \o paint(<<"error scaling">>, "@red")>>
             ELSE <<>>)
         \o <<writeln(<<>>)>>
    ELSE <<>>

ingredients_writes(rcp) ==
    IF rcp.ingredients = <<>> THEN <<>>
    ELSE <<writeln(<<"Ingredients:">>)>>
         \o <<table_text([p \in 1..Len(listed_entries(rcp)) |->
                            igr_row(listed_entries(rcp)[p])])>>
         \o outcome_legend_writes(rcp)
         \o <<writeln(<<>>)>>

----------------------------------------------------------------------------
(* The cookware table *)

cookware_row(item) ==
    <<<<display_name(item)>>,
      IF is_optional(item.modifiers) THEN <<"(optional)">> ELSE <<>>,
      Concat([q \in 1..Len(item.amounts) |->
                (IF q > 1 THEN <<", ">> ELSE <<>>) \o <<item.amounts[q]>>]),
      IF item.note.some THEN <<"(", item.note.v, ")">> ELSE <<>>>>

cookware_writes(rcp) ==
    LET listed(item) == should_be_listed(item.modifiers)
        items == SelectSeq(rcp.cookware, listed)
    IN  IF rcp.cookware = <<>> THEN <<>>
        ELSE <<writeln(<<"Cookware:">>)>>
             \o <<writeln(table_text([p \in 1..Len(items) |-> cookware_row(items[p])]))>>

----------------------------------------------------------------------------
(* steps: the sections and their content; a panic ends the list of writes *)

\* "{:>2}": right-aligned in two columns
pad_left_2(s) == IF Len(s) < 2 THEN <<" ">> \o s ELSE s

\* "{: ^width$}": centred in the line, the padding left out
centered(s) == <<"{:^}">> \o s

section_divider(section_index) ==
    writeln(centered(<<"--- S ">> \o to_string(section_index + 1) \o <<" ---">>))

\* the two print_wrapped_with_options calls for a step, given step_text's result
step_lines(number, st, width) ==
    IF st.panic THEN [writes |-> <<>>, panic |-> TRUE]
    ELSE [writes |->
            print_wrapped_with_options(
                pad_left_2(to_string(number)) \o <<". ">> \o trim(st.text),
                width, <<>>, <<"    ">>, "default")
            \o print_wrapped_with_options(st.igrs, width, <<"     ">>, <<"     ">>,
                                          "comma"),
          panic |-> FALSE]

\* the writes of one Content::Step
step_writes(rcp, section, step, width) ==
    step_lines(step.number, step_text(rcp, section, step), width)

\* the writes of a part followed by the writes of what runs after it, if it
\* does not panic
and_then(this, rest) ==
    IF this.panic THEN this
    ELSE [writes |-> this.writes \o rest.writes, panic |-> rest.panic]

no_panic(writes) == [writes |-> writes, panic |-> FALSE]

\* the writes of one Content::Text
text_writes(t, width) ==
    <<writeln(<<>>)>>
    \o print_wrapped_with_options(trim(t), width, <<"  ">>, <<>>, "default")
    \o <<writeln(<<>>)>>

\* the loop over section.content, from position k on
RECURSIVE content_writes(_, _, _, _)
content_writes(rcp, section, k, width) ==
    IF k > Len(section.content) THEN [writes |-> <<>>, panic |-> FALSE]
    ELSE and_then(IF section.content[k].kind = "Step"
                  THEN step_writes(rcp, section, section.content[k].step, width)
                  ELSE no_panic(text_writes(section.content[k].text, width)),
                  content_writes(rcp, section, k + 1, width))


\* steps with "recipe.sections.len() >= 1" for the divider
section_head_always_divider(rcp, section_index) ==
    (IF Len(rcp.sections) >= 1 THEN <<section_divider(section_index)>> ELSE <<>>)
    \o (IF rcp.sections[section_index + 1].name.some
        THEN <<writeln(paint(<<rcp.sections[section_index + 1].name.v>>, "@section_name")
                       \o <<":">>)>>
        ELSE <<>>)

\* the divider and the name written before a section's content
section_head(rcp, section_index) ==
    (IF Len(rcp.sections) > 1 THEN <<section_divider(section_index)>> ELSE <<>>)
    \o (IF rcp.sections[section_index + 1].name.some
        THEN <<writeln(paint(<<rcp.sections[section_index + 1].name.v>>, "@section_name")
                       \o <<":">>)>>
        ELSE <<>>)

\* the loop over recipe.sections, from section_index on
RECURSIVE sections_writes(_, _, _)
sections_writes(rcp, section_index, width) ==
    IF section_index >= Len(rcp.sections) THEN [writes |-> <<>>, panic |-> FALSE]
    ELSE and_then(no_panic(section_head(rcp, section_index)),
                  and_then(content_writes(rcp, rcp.sections[section_index + 1], 1, width),
                           sections_writes(rcp, section_index + 1, width)))

steps_writes(rcp, width) ==
    and_then(no_panic(<<writeln(<<"Steps:">>)>>), sections_writes(rcp, 0, width))

----------------------------------------------------------------------------
(* print_human *)

\* how many of n writes the sink accepts
accepted(snk, n) == IF snk.limited THEN Min(snk.left, n) ELSE n

\* the sink after n writes were offered to it
sink_after(snk, n) ==
    IF snk.limited THEN [limited |-> TRUE, left |-> snk.left - accepted(snk, n)] ELSE snk


\* a part of print_human whose error is dropped ("let _ = part(..)")
Part_ignores_error(part, next) ==
    /\ result = "running"
    /\ out' = out \o SubSeq(part.writes, 1, accepted(sink, Len(part.writes)))
    /\ sink' = sink_after(sink, Len(part.writes))
    /\ rejected' = IF accepted(sink, Len(part.writes)) < Len(part.writes)
                   THEN rejected \o <<part.writes[accepted(sink, Len(part.writes)) + 1]>>
                   ELSE rejected
    /\ result' = IF part.panic THEN "panic"
                 ELSE IF next = "return" THEN "Ok" ELSE "running"
    /\ pc' = IF part.panic THEN "return" ELSE next
    /\ UNCHANGED <<recipe, name, term_width>>

\* One part of print_human: its writes are offered to the sink in order, the
\* first rejected write returns the error (the ? operator), a panic ends the run
Part(part, next) ==
    /\ result = "running"
    /\ out' = out \o SubSeq(part.writes, 1, accepted(sink, Len(part.writes)))
    /\ sink' = sink_after(sink, Len(part.writes))
    /\ IF accepted(sink, Len(part.writes)) < Len(part.writes)
       THEN /\ rejected' = rejected \o <<part.writes[accepted(sink, Len(part.writes)) + 1]>>
            /\ result' = "Err"
            /\ pc' = "return"
       ELSE /\ rejected' = rejected
            /\ result' = IF part.panic THEN "panic"
                         ELSE IF next = "return" THEN "Ok" ELSE "running"
            /\ pc' = IF part.panic THEN "return" ELSE next
    /\ UNCHANGED <<recipe, name, term_width>>

header ==
    /\ pc = "header"
    /\ Part(no_panic(header_writes(recipe, name, term_width)), "metadata")

metadata ==
    /\ pc = "metadata"
    /\ Part(no_panic(metadata_writes(recipe, term_width)), "ingredients")

ingredients ==
    /\ pc = "ingredients"
    /\ Part(no_panic(ingredients_writes(recipe)), "cookware")

cookware ==
    /\ pc = "cookware"
    /\ Part(no_panic(cookware_writes(recipe)), "steps")

steps ==
    /\ pc = "steps"
    /\ Part(steps_writes(recipe, term_width), "return")

Next == header \/ metadata \/ ingredients \/ cookware \/ steps

----------------------------------------------------------------------------
(* The recipes the specifications start from *)

MaxIgrs == 3

MaxGrouped == 3

MaxSections == 3

MaxTimers == 2

MaxTarget == 2

MaxSinkWrites == 40

SeqsUpTo(S, n) == UNION {[1..k -> S] : k \in 0..n}

Text(value) == [kind |-> "Text", value |-> value, index |-> 0]

Ref(kind, index) == [kind |-> kind, value |-> <<>>, index |-> index]

StepContent(number, items) ==
    [kind |-> "Step", step |-> [number |-> number, items |-> items], text |-> <<>>]

TextContent(t) ==
    [kind |-> "Text", step |-> [number |-> 0, items |-> <<>>], text |-> t]

NoRelation == [target |-> "None", index |-> 0]

Relation(target, index) == [target |-> target, index |-> index]

Qty == [value |-> "1", unit |-> Some("tsp")]

Igr(nm, quantity, relation, modifiers) ==
    [name |-> nm, alias |-> None, quantity |-> quantity, note |-> None,
     relation |-> relation, modifiers |-> modifiers]

\* the entries cooklang's group_ingredients gives for a recipe that was not
\* scaled: one per ingredient that is no reference, with its own quantity
unscaled_groups(igrs) ==
    LET defined(igr) == "REF" \notin igr.modifiers
        own == SelectSeq(igrs, defined)
    IN  [p \in 1..Len(own) |->
            [ingredient |-> own[p],
             quantity |-> IF own[p].quantity.some THEN <<own[p].quantity.v>> ELSE <<>>,
             outcome |-> None]]

EmptyMetadata ==
    [emoji |-> None, tags |-> None, description |-> None, author |-> None,
     source |-> None, time |-> None, servings |-> None, other |-> <<>>]

Recipe(md, igrs, grouped, cookware_items, timers, sections) ==
    [metadata |-> md, scaled_data |-> None, is_default_scaled |-> TRUE,
     ingredients |-> igrs, grouped |-> grouped, cookware |-> cookware_items,
     timers |-> timers, inline_quantities |-> <<Qty>>, sections |-> sections]

\* "Add a and b ...": the ingredients from..to-1, in order
IgrItems(from, to) ==
    <<Text(<<"Add", " ">>)>>
    \o Concat([d \in 1..(to - from) |->
            (IF d > 1 THEN <<Text(<<" ", "and", " ">>)>> ELSE <<>>)
            \o <<Ref("Ingredient", from + d - 1)>>])

PlainItems == <<Text(<<"Stir", " ">>)>>

\* the parser numbers the steps of a section from 1, texts not counted
step_number(kinds, p) == Cardinality({q \in 1..p : kinds[q] = "Step"})

Contents(kinds, at, items) ==
    [p \in 1..Len(kinds) |->
        IF kinds[p] = "Step"
        THEN StepContent(step_number(kinds, p), IF p = at THEN items ELSE PlainItems)
        ELSE TextContent(<<" ", "Note">>)]

Unlimited == [limited |-> FALSE, left |-> 0]

Start(r, w, snk) ==
    /\ recipe = r
    /\ name = "Bread"
    /\ term_width = TERM_WIDTH(w)
    /\ sink = snk
    /\ out = <<>>
    /\ rejected = <<>>
    /\ pc = "header"
    /\ result = "running"

\* SpecDedup: up to MaxIgrs ingredients sharing two names (the first one named
\* "salt": the names are interchangeable), the first k of them in step 1 and the
\* rest in step 2 of the second section
DedupIgrs ==
    {Igr(n, q, r, {}) : n \in {"salt", "oil"}, q \in {None, Some(Qty)},
                        r \in {NoRelation, Relation("Section", 0)}}

DedupRecipe(igrs, k) ==
    Recipe(EmptyMetadata, igrs, unscaled_groups(igrs), <<>>, <<>>,
           <<[name |-> None, content |-> Contents(<<"Step">>, 0, <<>>)],
             [name |-> None,
              content |-> <<StepContent(1, IgrItems(0, k)),
                            StepContent(2, IgrItems(k, Len(igrs)))>>]>>)

InitDedup ==
    \E igrs \in {s \in SeqsUpTo(DedupIgrs, MaxIgrs) : s = <<>> \/ s[1].name = "salt"} :
        \E k \in 0..Len(igrs) :
            Start(DedupRecipe(igrs, k), 80, Unlimited)

SpecDedup == InitDedup /\ [][Next]_vars

\* SpecTable: up to MaxGrouped entries of the ingredient table
TableEntries ==
    {[ingredient |-> Igr("salt", IF o = None THEN None ELSE Some(Qty), NoRelation, m),
      quantity |-> IF o = None \/ o = Some("NoQuantity") THEN <<>> ELSE <<Qty>>,
      outcome |-> o] :
        o \in {None, Some("Scaled"), Some("Fixed"), Some("Error"), Some("NoQuantity")},
        m \in {{}, {"HIDDEN"}}}

TableRecipe(entries) ==
    Recipe(EmptyMetadata, [p \in 1..Len(entries) |-> entries[p].ingredient], entries,
           <<>>, <<>>,
           <<[name |-> None, content |-> Contents(<<"Step">>, 0, <<>>)]>>)

InitTable ==
    \E entries \in SeqsUpTo(TableEntries, MaxGrouped) :
        Start(TableRecipe(entries), 80, Unlimited)

SpecTable == InitTable /\ [][Next]_vars

\* SpecSections: up to MaxSections sections, named or not
SectionShapes ==
    {[name |-> n, content |-> Contents(kinds, 0, <<>>)] :
        n \in {None, Some("Dough")},
        kinds \in {<<>>, <<"Step">>, <<"Text", "Step">>, <<"Step", "Step">>}}

InitSections ==
    \E sections \in SeqsUpTo(SectionShapes, MaxSections) :
        Start(Recipe(EmptyMetadata, <<>>, <<>>, <<>>, <<>>, sections), 80, Unlimited)

SpecSections == InitSections /\ [][Next]_vars

\* SpecTimers: up to MaxTimers timers in one step, with a cookware item and an
\* inline quantity
Timers ==
    {[quantity |-> q, name |-> n] :
        q \in {None, Some([value |-> "10", unit |-> Some("min")]),
               Some([value |-> "5", unit |-> None])},
        n \in {None, Some("rest")}}

Pot == [name |-> "pot", alias |-> Some("big pot"), modifiers |-> {},
        note |-> Some("clean"), amounts |-> <<"1", "2">>]

TimerItems(n) ==
    <<Text(<<" ", "Bake", " ">>)>>
    \o Concat([t \in 1..n |-> <<Ref("Timer", t - 1), Text(<<" ">>)>>])
    \o <<Ref("Cookware", 0), Text(<<" ">>), Ref("InlineQuantity", 0)>>

InitTimers ==
    \E timers \in SeqsUpTo(Timers, MaxTimers) :
        Start(Recipe(EmptyMetadata, <<>>, <<>>, <<Pot>>, timers,
                     <<[name |-> None,
                        content |-> <<StepContent(1, TimerItems(Len(timers)))>>]>>),
              80, Unlimited)

SpecTimers == InitTimers /\ [][Next]_vars

\* SpecRefs: two sections, two ingredients named alike in the last step of one
\* of them, each a reference or not
RefRelations ==
    {NoRelation, Relation("Ingredient", 0)}
    \cup {Relation(k, t) : k \in {"Step", "Section"}, t \in 0..MaxTarget}

RefIgrs == {Igr("dough", q, r, {}) : q \in {None, Some(Qty)}, r \in RefRelations}

RefLayouts == {<<"Step", "Step">>, <<"Text", "Step", "Step">>, <<"Step", "Text", "Step">>}

RefRecipe(igrs, kinds0, kinds1, home) ==
    Recipe(EmptyMetadata, igrs, unscaled_groups(igrs), <<>>, <<>>,
           <<[name |-> None,
              content |-> Contents(kinds0, IF home = 0 THEN Len(kinds0) ELSE 0,
                                   IgrItems(0, Len(igrs)))],
             [name |-> None,
              content |-> Contents(kinds1, IF home = 1 THEN Len(kinds1) ELSE 0,
                                   IgrItems(0, Len(igrs)))]>>)

InitRefs ==
    \E igrs \in [1..2 -> RefIgrs] : \E kinds0 \in RefLayouts : \E kinds1 \in RefLayouts :
        \E home \in 0..1 :
            Start(RefRecipe(igrs, kinds0, kinds1, home), 80, Unlimited)

SpecRefs == InitRefs /\ [][Next]_vars

\* Spec: recipes with every part of the document, a terminal narrower or wider
\* than the cap, and a sink that accepts every write or only the first ones
FullMetadata ==
    [emoji |-> Some("*"),
     tags |-> Some(<<<<"a", "b">>, <<"c", "a", "f", "e">>, <<>>>>),
     description |-> Some(<<"A", " ", "quick", " ", "bread">>),
     author |-> Some([name |-> None, url |-> Some("example.org")]),
     source |-> Some([name |-> None, url |-> None]),
     time |-> Some([kind |-> "Composed", total |-> 0, prep_time |-> Some(20),
                    cook_time |-> None]),
     servings |-> Some(<<2, 4>>),
     other |-> <<>>]

PartMetadata ==
    [EmptyMetadata EXCEPT
        !.time = Some([kind |-> "Total", total |-> 1530, prep_time |-> None,
                       cook_time |-> None]),
        !.other = <<[key |-> Some("course"), value |-> Some("main")],
                    [key |-> Some("nested"), value |-> None]>>]

SinkIgrs ==
    <<Igr("flour", Some(Qty), NoRelation, {}),
      [Igr("flour", Some([value |-> "2", unit |-> None]), NoRelation, {"OPT"})
            EXCEPT !.alias = Some("white flour"), !.note = Some("sifted")]>>

SinkGroups(igrs) ==
    [p \in 1..Len(igrs) |->
        [ingredient |-> igrs[p], quantity |-> <<igrs[p].quantity.v, Qty>>,
         outcome |-> IF p = 1 THEN Some("Fixed") ELSE Some("Error")]]

SinkSections(igrs, two) ==
    <<[name |-> None,
       content |-> <<StepContent(1, IgrItems(0, Len(igrs)) \o <<Ref("Timer", 0)>>)>>]>>
    \o (IF two
        THEN <<[name |-> Some("Baking"), content |-> Contents(<<"Text", "Step">>, 0, <<>>)]>>
        ELSE <<>>)

SinkRecipes ==
    {[Recipe(md, igrs, SinkGroups(igrs), cw, <<timer>>, SinkSections(igrs, two))
        EXCEPT !.scaled_data = scaled, !.is_default_scaled = ~scaled.some] :
        md \in {EmptyMetadata, FullMetadata, PartMetadata},
        igrs \in {<<>>, SinkIgrs},
        cw \in {<<>>, <<Pot>>},
        timer \in {[quantity |-> None, name |-> Some("rest")],
                   [quantity |-> None, name |-> None]},
        two \in BOOLEAN,
        scaled \in {None, Some([index |-> None, target_servings |-> 3])}}

Sinks == {Unlimited} \cup {[limited |-> TRUE, left |-> n] : n \in 0..MaxSinkWrites}

Init ==
    \E r \in SinkRecipes : \E w \in {6, 120} : \E snk \in Sinks : Start(r, w, snk)

Spec == Init /\ [][Next]_vars

----------------------------------------------------------------------------
(* What the claims speak of *)

\* the steps of the recipe: <<s, k>> is content k of section s
StepPlaces ==
    {sk \in UNION {{<<s, k>> : k \in 1..Len(recipe.sections[s].content)} :
                        s \in 1..Len(recipe.sections)} :
        recipe.sections[sk[1]].content[sk[2]].kind = "Step"}

SectionOf(sk) == recipe.sections[sk[1]]

StepAt(sk) == recipe.sections[sk[1]].content[sk[2]].step

IgrAt(i) == recipe.ingredients[i + 1]

\* the positions of a step's items that name an ingredient
IgrItemsOf(step) == {j \in 1..Len(step.items) : step.items[j].kind = "Ingredient"}

\* all occurrences of a name in a step, in item order, before any filtering
OriginalGroup(step, n) ==
    LET named(i) == IgrAt(i).name = n
    IN  SelectSeq(step_igr_indices(step), named)

\* the occurrences of a name that carry a quantity or are intermediate references
Informative(step, n) ==
    LET informs(i) == IgrAt(i).quantity.some \/ IgrAt(i).relation.target \in {"Step", "Section"}
    IN  SelectSeq(OriginalGroup(step, n), informs)

PostGroup(step, n) == build_step_igrs_dedup(step, recipe)[n]

\* 0-based position of the first x in s
PositionIn(s, x) == (CHOOSE p \in 1..Len(s) : s[p] = x /\ \A q \in 1..(p - 1) : s[q] /= x) - 1

SubscriptGlyphs == <<"_0", "_1", "_2", "_3", "_4", "_5", "_6", "_7", "_8", "_9">>

RECURSIVE Subscript(_)
Subscript(n) ==
    IF n < 10 THEN <<SubscriptGlyphs[n + 1]>>
    ELSE Subscript(n \div 10) \o <<SubscriptGlyphs[(n % 10) + 1]>>

IsSubscriptGlyph(a) == \E g \in 1..Len(SubscriptGlyphs) : SubscriptGlyphs[g] = a

IgrToken(i) == <<"@ingredient", display_name(IgrAt(i)), "@reset">>

Count(s, a) == Cardinality({p \in 1..Len(s) : s[p] = a})

\* the render ran to its end and the step's two lines, narrative then
\* ingredient line, are in the output
Rendered(sk) ==
    LET st == step_text(recipe, SectionOf(sk), StepAt(sk))
    IN  /\ result = "Ok"
        /\ ~st.panic
        /\ \E p \in 1..(Len(out) - 1) :
              /\ out[p] = pad_left_2(to_string(StepAt(sk).number)) \o <<". ">>
                          \o trim(st.text) \o <<"\n">>
              /\ out[p + 1] = <<"     ">> \o st.igrs \o <<"\n">>

\* what item j of the step put in the narrative
Piece(sk, j) == step_pieces(recipe, StepAt(sk))[j].text

Legend(sk) == step_text(recipe, SectionOf(sk), StepAt(sk)).igrs

LegendLine(sk) == step_igrs_line(recipe, StepAt(sk))

----------------------------------------------------------------------------
(* C1 *)

\* C1 as stated: when the post-filter group of the name has more than one
\* member, every inline occurrence is followed by the subscript 1 + its
\* position in the original, unfiltered group; otherwise by no subscript.
C1_Original ==
    result = "Ok" =>
        \A sk \in StepPlaces : \A j \in IgrItemsOf(StepAt(sk)) :
            LET i == StepAt(sk).items[j].index
                n == IgrAt(i).name
            IN  Piece(sk, j) =
                    IF Len(PostGroup(StepAt(sk), n)) > 1
                    THEN IgrToken(i) \o Subscript(1 + PositionIn(OriginalGroup(StepAt(sk), n), i))
                    ELSE IgrToken(i)

\* C1, amended: in every rendered step, an inline ingredient occurrence is
\* followed by a subscript exactly when the post-filter group of its name has
\* more than one member and the occurrence is itself a member of it; the
\* subscript is 1 + the position of the occurrence within the post-filter
\* group.  Occurrences filtered out of the group carry no subscript.
C1_Subscript ==
    result = "Ok" =>
        \A sk \in StepPlaces :
            LET dedup == build_step_igrs_dedup(StepAt(sk), recipe)
                pieces == step_pieces(recipe, StepAt(sk))
            IN  /\ Rendered(sk)
                /\ \A j \in IgrItemsOf(StepAt(sk)) :
                    LET i == StepAt(sk).items[j].index
                        post == dedup[IgrAt(i).name]
                    IN  pieces[j].text =
                            IF Len(post) > 1 /\ Contains(post, i)
                            THEN IgrToken(i) \o Subscript(1 + PositionIn(post, i))
                            ELSE IgrToken(i)

\* a rendered step where an occurrence was filtered out of a group that keeps
\* two members, one of them after the filtered occurrence
C1_Witness ==
    /\ result = "Ok"
    /\ \E sk \in StepPlaces : \E j \in IgrItemsOf(StepAt(sk)) :
        LET i == StepAt(sk).items[j].index
            n == IgrAt(i).name
        IN  /\ Len(PostGroup(StepAt(sk), n)) > 1
            /\ ~Contains(PostGroup(StepAt(sk), n), i)
            /\ \E l \in IgrItemsOf(StepAt(sk)) :
                  /\ l > j
                  /\ Contains(PostGroup(StepAt(sk), n), StepAt(sk).items[l].index)

----------------------------------------------------------------------------
(* C2 *)

\* the step of the example: [Text, IngredientRef, Text, IngredientRef], both of
\* one name, the first with no quantity and no intermediate reference, the
\* second with a quantity
IsExample(step) ==
    /\ Len(step.items) = 4
    /\ step.items[1].kind = "Text" /\ step.items[3].kind = "Text"
    /\ step.items[2].kind = "Ingredient" /\ step.items[4].kind = "Ingredient"
    /\ IgrAt(step.items[2].index).name = IgrAt(step.items[4].index).name
    /\ ~IgrAt(step.items[2].index).quantity.some
    /\ IgrAt(step.items[2].index).relation.target \notin {"Step", "Section"}
    /\ IgrAt(step.items[4].index).quantity.some

QuantityText(i) ==
    <<": ", "@step_igr_quantity", IgrAt(i).quantity.v.value, " ", "@italic",
      IgrAt(i).quantity.v.unit.v, "@reset", "@reset">>

\* C2 as stated: in the example the narrative has subscript 1 after the first
\* mention and subscript 2 after the second, and the ingredient line has exactly
\* one entry, for the second occurrence, with subscript 2 and its quantity.
C2_Original ==
    result = "Ok" =>
        \A sk \in StepPlaces :
            IsExample(StepAt(sk)) =>
                /\ Piece(sk, 2) = IgrToken(StepAt(sk).items[2].index) \o <<"_1">>
                /\ Piece(sk, 4) = IgrToken(StepAt(sk).items[4].index) \o <<"_2">>
                /\ Len(LegendLine(sk)) = 1
                /\ LegendLine(sk)[1].index = StepAt(sk).items[4].index
                /\ LegendLine(sk)[1].pos = Some(2)

\* C2, amended: in the example the narrative has no subscript after either
\* mention, and the ingredient line has exactly one entry, for the second
\* occurrence, with no subscript and with its quantity.
C2_Example ==
    result = "Ok" =>
        \A sk \in StepPlaces :
            IsExample(StepAt(sk)) =>
                LET i1 == StepAt(sk).items[4].index
                    legend == Legend(sk)
                IN  /\ Rendered(sk)
                    /\ Piece(sk, 2) = IgrToken(StepAt(sk).items[2].index)
                    /\ Piece(sk, 4) = IgrToken(i1)
                    /\ Len(LegendLine(sk)) = 1
                    /\ LegendLine(sk)[1].index = i1
                    /\ ~LegendLine(sk)[1].pos.some
                    /\ \A p \in 1..Len(legend) :
                            ~IsSubscriptGlyph(legend[p]) /\ legend[p] /= ", "
                    /\ SubSeq(legend, 1, 2) = <<"[", display_name(IgrAt(i1))>>
                    /\ SubSeq(legend, Len(legend) - Len(QuantityText(i1)), Len(legend))
                            = QuantityText(i1) \o <<"]">>

\* the example step was rendered
C2_Witness ==
    /\ result = "Ok"
    /\ \E sk \in StepPlaces : IsExample(StepAt(sk)) /\ Rendered(sk)

----------------------------------------------------------------------------
(* C3 *)

\* C3: in every rendered step each name's group keeps its occurrences that
\* carry a quantity or are intermediate references, or its first occurrence if
\* there is none, so it has at least one member; and an occurrence is on the
\* ingredient line exactly when its index is in the post-filter group of its
\* name.
C3_Groups ==
    result = "Ok" =>
        \A sk \in StepPlaces :
            LET dedup == build_step_igrs_dedup(StepAt(sk), recipe)
                line == LegendLine(sk)
            IN  /\ Rendered(sk)
                /\ \A n \in DOMAIN dedup :
                    /\ Len(dedup[n]) >= 1
                    /\ dedup[n] =
                            IF Informative(StepAt(sk), n) = <<>>
                            THEN <<Head(OriginalGroup(StepAt(sk), n))>>
                            ELSE Informative(StepAt(sk), n)
                /\ \A j \in IgrItemsOf(StepAt(sk)) :
                    LET i == StepAt(sk).items[j].index
                    IN  (\E e \in 1..Len(line) : line[e].index = i)
                        <=> Contains(dedup[IgrAt(i).name], i)
                /\ \A e \in 1..Len(line) :
                    \E j \in IgrItemsOf(StepAt(sk)) :
                        StepAt(sk).items[j].index = line[e].index

\* a rendered step with a group that kept only its first occurrence for want of
\* information, and a second occurrence of that name left off the line
C3_Witness ==
    /\ result = "Ok"
    /\ \E sk \in StepPlaces : \E n \in DOMAIN build_step_igrs_dedup(StepAt(sk), recipe) :
        /\ Informative(StepAt(sk), n) = <<>>
        /\ Len(OriginalGroup(StepAt(sk), n)) > 1
        /\ Len(LegendLine(sk)) >= 1

----------------------------------------------------------------------------
(* C9 *)

\* the occurrences of a step that survive the filter, in item order
Surviving(step) ==
    LET dedup == build_step_igrs_dedup(step, recipe)
        kept(i) == Contains(dedup[IgrAt(i).name], i)
    IN  SelectSeq(step_igr_indices(step), kept)

\* the entries of a legend: the pieces between "[" and "]" that ", " separates
RECURSIVE SplitEntries(_, _)
SplitEntries(text, entry) ==
    IF text = <<>> THEN <<entry>>
    ELSE IF Head(text) = ", " THEN <<entry>> \o SplitEntries(Tail(text), <<>>)
         ELSE SplitEntries(Tail(text), entry \o <<Head(text)>>)

LegendEntries(legend) == SplitEntries(SubSeq(legend, 2, Len(legend) - 1), <<>>)

\* C9: the ingredient line of every rendered step with a surviving occurrence
\* has one entry per surviving occurrence, in the order of the step's items,
\* with ", " between consecutive entries and none after the last.
C9_Entries ==
    result = "Ok" =>
        \A sk \in StepPlaces :
            LET alive == Surviving(StepAt(sk))
                legend == Legend(sk)
                entries == LegendEntries(legend)
                line == LegendLine(sk)
            IN  /\ Rendered(sk)
                /\ Len(line) = Len(alive)
                /\ \A e \in 1..Len(alive) : line[e].index = alive[e]
                /\ alive /= <<>> =>
                    /\ Head(legend) = "[" /\ legend[Len(legend)] = "]"
                    /\ Count(legend, ", ") = Len(alive) - 1
                    /\ Len(entries) = Len(alive)
                    /\ \A e \in 1..Len(alive) :
                        /\ entries[e] /= <<>>
                        /\ Head(entries[e]) = display_name(IgrAt(alive[e]))
                        /\ IgrAt(alive[e]).quantity.some =>
                            SubSeq(entries[e],
                                   Len(entries[e]) - Len(QuantityText(alive[e])) + 1,
                                   Len(entries[e])) = QuantityText(alive[e])

\* a rendered step whose line has two entries of one name, both with a quantity
C9_Witness ==
    /\ result = "Ok"
    /\ \E sk \in StepPlaces : \E a, b \in 1..Len(LegendLine(sk)) :
        /\ a < b
        /\ IgrAt(LegendLine(sk)[a].index).name = IgrAt(LegendLine(sk)[b].index).name
        /\ IgrAt(LegendLine(sk)[a].index).quantity.some
        /\ IgrAt(LegendLine(sk)[b].index).quantity.some

----------------------------------------------------------------------------
(* C10 *)

\* C10: the ingredient line of a rendered step is the placeholder "[-]" exactly
\* when no item of the step names an ingredient; otherwise it is a bracketed
\* line with at least one entry.
C10_Placeholder ==
    result = "Ok" =>
        \A sk \in StepPlaces :
            LET legend == Legend(sk)
            IN  /\ Rendered(sk)
                /\ legend = <<"[-]">> <=> IgrItemsOf(StepAt(sk)) = {}
                /\ IgrItemsOf(StepAt(sk)) /= {} =>
                    /\ Head(legend) = "[" /\ legend[Len(legend)] = "]"
                    /\ Len(LegendLine(sk)) >= 1
                    /\ Len(legend) >= 3

\* a rendered recipe with a step of no ingredient and a step whose only
\* ingredient has no quantity and no reference
C10_Witness ==
    /\ result = "Ok"
    /\ \E sk \in StepPlaces : IgrItemsOf(StepAt(sk)) = {} /\ Legend(sk) = <<"[-]">>
    /\ \E sk \in StepPlaces :
        /\ Cardinality(IgrItemsOf(StepAt(sk))) = 1
        /\ \A j \in IgrItemsOf(StepAt(sk)) :
                /\ ~IgrAt(StepAt(sk).items[j].index).quantity.some
                /\ IgrAt(StepAt(sk).items[j].index).relation.target = "None"

----------------------------------------------------------------------------
(* C4 *)

IsPrefix(a, b) == Len(a) <= Len(b) /\ SubSeq(b, 1, Len(a)) = a

\* every write of the document, in the order print_human makes them
AllWrites ==
    header_writes(recipe, name, term_width)
    \o metadata_writes(recipe, term_width)
    \o ingredients_writes(recipe)
    \o cookware_writes(recipe)
    \o steps_writes(recipe, term_width).writes

\* C4: the sink rejects at most one write; once a write is rejected print_human
\* has returned the error, nothing more is offered to the sink, and what was
\* accepted followed by the rejected write is the document's beginning; Ok is
\* returned only with every write of header, metadata, ingredients, cookware
\* and steps accepted, in that order.
C4_Abort ==
    /\ Len(rejected) <= 1
    /\ result = "Err" <=> rejected /= <<>>
    /\ IsPrefix(out \o rejected, AllWrites)
    /\ rejected /= <<>> => pc = "return" /\ ~ENABLED Next
    /\ result = "Ok" => pc = "return" /\ rejected = <<>> /\ out = AllWrites

\* a write inside the steps was rejected with writes of the document left
C4_Witness ==
    /\ result = "Err"
    /\ Contains(out, <<"Steps:", "\n">>)
    /\ Len(out) + 1 < Len(AllWrites)

----------------------------------------------------------------------------
(* C5 *)

\* the entries that make a row of the table
ListedRows ==
    LET shown(entry) == entry.ingredient.modifiers \cap {"HIDDEN", "REF"} = {}
    IN  SelectSeq(recipe.grouped, shown)

RowsWith(outcome) ==
    {p \in 1..Len(ListedRows) :
        ListedRows[p].outcome.some /\ ListedRows[p].outcome.v = outcome}

FirstAt(s, a) == CHOOSE p \in 1..Len(s) : s[p] = a /\ \A q \in 1..(p - 1) : s[q] /= a

LastAt(s, a) == CHOOSE p \in 1..Len(s) : s[p] = a /\ \A q \in (p + 1)..Len(s) : s[q] /= a

\* C5: once the ingredients are written, every listed Fixed row carries the
\* fixed-value glyph and no other row does; the "fixed value" explanation is
\* written once, after the table, when a listed row is Fixed and never
\* otherwise, the "error scaling" explanation likewise for Error, and " | "
\* stands between them, fixed first, exactly when both are written.
C5_Glyphs ==
    pc \in {"cookware", "steps", "return"} =>
        LET flat == Concat(out)
            fixed == RowsWith("Fixed")
            err == RowsWith("Error")
        IN  /\ \A p \in fixed : Contains(igr_row(ListedRows[p])[3], trinagle)
            /\ Count(flat, trinagle) = Cardinality(fixed)
            /\ Count(flat, octagon) = Cardinality(err)
            /\ Count(flat, "fixed value") = IF fixed /= {} THEN 1 ELSE 0
            /\ Count(flat, "error scaling") = IF err /= {} THEN 1 ELSE 0
            /\ Count(flat, " | ") = IF fixed /= {} /\ err /= {} THEN 1 ELSE 0
            /\ fixed /= {} => LastAt(flat, trinagle) < FirstAt(flat, "fixed value")
            /\ err /= {} => LastAt(flat, octagon) < FirstAt(flat, "error scaling")
            /\ fixed /= {} /\ err /= {} =>
                /\ FirstAt(flat, "fixed value") < FirstAt(flat, " | ")
                /\ FirstAt(flat, " | ") < FirstAt(flat, "error scaling")

\* a written table with two Fixed rows and an entry that is not listed
C5_Witness ==
    /\ result = "Ok"
    /\ Cardinality(RowsWith("Fixed")) >= 2
    /\ Len(ListedRows) < Len(recipe.grouped)

----------------------------------------------------------------------------
(* C6 *)

Divider(s) == <<"{:^}", "--- S ">> \o to_string(s) \o <<" ---", "\n">>

IsDivider(write) == write /= <<>> /\ Head(write) = "{:^}"

\* the name line and the content of section s
SectionBody(s) ==
    (IF recipe.sections[s].name.some
     THEN <<<<"@section_name", recipe.sections[s].name.v, "@reset", ":", "\n">>>>
     ELSE <<>>)
    \o content_writes(recipe, recipe.sections[s], 1, term_width).writes

\* C6: the writes of steps are "Steps:" and then, section by section in recipe
\* order, the section's name and content, each preceded by a divider with the
\* section's 1-based position when the recipe has two or more sections, and by
\* no divider when it has one.
C6_Dividers ==
    result = "Ok" =>
        LET n == Len(recipe.sections)
            expected ==
                <<<<"Steps:", "\n">>>>
                \o Concat([s \in 1..n |->
                        (IF n >= 2 THEN <<Divider(s)>> ELSE <<>>) \o SectionBody(s)])
            dividers == SelectSeq(out, IsDivider)
        IN  /\ Len(expected) <= Len(out)
            /\ SubSeq(out, Len(out) - Len(expected) + 1, Len(out)) = expected
            /\ Len(dividers) = IF n >= 2 THEN n ELSE 0
            /\ \A s \in 1..Len(dividers) : dividers[s] = Divider(s)

\* a rendered recipe of three sections, one of them named
C6_Witness ==
    /\ result = "Ok"
    /\ Len(recipe.sections) = 3
    /\ \E s \in 1..3 : recipe.sections[s].name.some /\ Len(recipe.sections[s].content) > 0
    /\ Len(SelectSeq(out, IsDivider)) = 3

----------------------------------------------------------------------------
(* C7 *)

TimerItemsOf(step) == {j \in 1..Len(step.items) : step.items[j].kind = "Timer"}

TimerAt(step, j) == recipe.timers[step.items[j].index + 1]

QuantityAtoms(q) ==
    IF q.unit.some THEN <<q.value, " ", "@italic", q.unit.v, "@reset">> ELSE <<q.value>>

Styled(s) == <<"@timer">> \o s \o <<"@reset">>

\* C7: a timer with quantity and name puts "quantity (name)" in the narrative,
\* one with only a quantity the quantity, one with only a name the name; a
\* timer with neither panics: the run ends there and no line of a step with
\* such a timer is written.
C7_Timers ==
    /\ \A sk \in StepPlaces : \A j \in TimerItemsOf(StepAt(sk)) :
        LET timer == TimerAt(StepAt(sk), j)
            piece == step_pieces(recipe, StepAt(sk))[j]
        IN  CASE timer.quantity.some /\ timer.name.some ->
                    /\ ~piece.panic
                    /\ piece.text = Styled(QuantityAtoms(timer.quantity.v)) \o <<" (">>
                                    \o Styled(<<timer.name.v>>) \o <<")">>
              [] timer.quantity.some /\ ~timer.name.some ->
                    ~piece.panic /\ piece.text = Styled(QuantityAtoms(timer.quantity.v))
              [] ~timer.quantity.some /\ timer.name.some ->
                    ~piece.panic /\ piece.text = Styled(<<timer.name.v>>)
              [] OTHER ->
                    /\ piece.panic
                    /\ result /= "Ok"
                    /\ pc = "return" => result = "panic"
                    /\ \A p \in 1..Len(out) : ~Contains(out[p], "@timer")
    /\ result = "Ok" => \A sk \in StepPlaces : Rendered(sk)

\* a rendered step with a timer of quantity and name and a timer of name only
C7_Witness ==
    /\ result = "Ok"
    /\ \E sk \in StepPlaces : \E j, l \in TimerItemsOf(StepAt(sk)) :
        /\ TimerAt(StepAt(sk), j).quantity.some /\ TimerAt(StepAt(sk), j).name.some
        /\ ~TimerAt(StepAt(sk), l).quantity.some /\ TimerAt(StepAt(sk), l).name.some
        /\ Rendered(sk)

----------------------------------------------------------------------------
(* C8 *)

ContainsSub(s, sub) ==
    \E p \in 0..(Len(s) - Len(sub)) : SubSeq(s, p + 1, p + Len(sub)) = sub

\* C8: in every rendered step, the entry of an ingredient that refers to
\* section t contains "from section t+1"; the entry of one that refers to step
\* t contains "from step n", n the number of the step at position t of the
\* content of the section the referring step is in; the entry of an ingredient
\* with no relation contains no "from".
C8_References ==
    result = "Ok" =>
        \A sk \in StepPlaces :
            LET line == LegendLine(sk)
                legend == Legend(sk)
            IN  /\ Rendered(sk)
                /\ \A e \in 1..Len(line) :
                    LET igr == IgrAt(line[e].index)
                        entry == igr_entry(recipe, SectionOf(sk), line[e])
                        t == igr.relation.index
                    IN  /\ ContainsSub(legend, entry)
                        /\ igr.relation.target = "Section" =>
                            /\ ContainsSub(entry, <<" from ", "section ">> \o to_string(t + 1)
                                                  \o <<"@reset">>)
                            /\ Count(entry, " from ") = 1
                        /\ igr.relation.target = "Step" =>
                            /\ SectionOf(sk).content[t + 1].kind = "Step"
                            /\ ContainsSub(entry,
                                    <<" from ", "step ">>
                                    \o to_string(SectionOf(sk).content[t + 1].step.number)
                                    \o <<"@reset">>)
                            /\ Count(entry, " from ") = 1
                        /\ igr.relation.target = "None" => Count(entry, " from ") = 0

\* a rendered step with an ingredient referring to a step whose number is not
\* the target index, while the other section has a text at that position
C8_Witness ==
    /\ result = "Ok"
    /\ \E sk \in StepPlaces : \E e \in 1..Len(LegendLine(sk)) :
        LET igr == IgrAt(LegendLine(sk)[e].index)
            t == igr.relation.index
        IN  /\ igr.relation.target = "Step"
            /\ SectionOf(sk).content[t + 1].step.number /= t
            /\ \E s \in 1..Len(recipe.sections) :
                    /\ s /= sk[1]
                    /\ recipe.sections[s].content[t + 1].kind = "Text"

====
